---- MODULE Spec2Model ----
(***************************************************************************)
(* The energy-mix pipeline of orchestration-workshop-tutorial: the plain   *)
(* script (workshop-project/basic/renewable_coverage_analysis.py) and the  *)
(* asset graph (workshop-project/advanced/.../defs/assets.py).             *)
(*                                                                         *)
(* A data frame is a sequence of records (its rows, in order).  A float is *)
(* a record [k, n, d]: k = "fin" is the rational n/d in lowest terms,      *)
(* k = "inf" is +infinity, k = "nan" is the float NaN and k = "na" is the  *)
(* masked missing value pd.NA of a nullable (Int64/Float64) column.        *)
(***************************************************************************)
EXTENDS Integers, Sequences, FiniteSets, TLC

\* Largest finite float of the model: a sum or product above it is +infinity
\* (IEEE-754 overflow, scaled down from 1.8e308).
MaxFloat == 3000
\* Largest number of rows of an input table.
MaxRows == 2

---------------------------------------------------------------------------
\* Floats

RECURSIVE GCD(_, _)
GCD(a, b) == IF b = 0 THEN a ELSE GCD(b, a % b)

Abs(x) == IF x < 0 THEN -x ELSE x

NaN == [k |-> "nan", n |-> 0, d |-> 1]
Inf == [k |-> "inf", n |-> 0, d |-> 1]
NA == [k |-> "na", n |-> 0, d |-> 1]

\* The float nearest n/d (d > 0): exact below MaxFloat, +infinity above it.
Float(n, d) ==
    IF n \div d > MaxFloat \/ (n \div d = MaxFloat /\ n % d # 0) THEN Inf
    ELSE LET g == GCD(Abs(n), d) IN [k |-> "fin", n |-> n \div g, d |-> d \div g]

Num(i) == Float(i, 1)

IsFin(x) == x.k = "fin"

\* x + y
FAdd(x, y) ==
    CASE x.k = "na" \/ y.k = "na" -> NA
      [] x.k = "nan" \/ y.k = "nan" -> NaN
      [] x.k = "inf" \/ y.k = "inf" -> Inf
      [] OTHER -> Float(x.n * y.d + y.n * x.d, x.d * y.d)

\* x - y, for y finite or NaN
FSub(x, y) ==
    CASE x.k = "na" \/ y.k = "na" -> NA
      [] x.k = "nan" \/ y.k = "nan" -> NaN
      [] x.k = "inf" -> Inf
      [] OTHER -> Float(x.n * y.d - y.n * x.d, x.d * y.d)

\* x * y, for x, y >= 0
FMul(x, y) ==
    CASE x.k = "na" \/ y.k = "na" -> NA
      [] x.k = "nan" \/ y.k = "nan" -> NaN
      [] x.k = "inf" -> IF y.k = "fin" /\ y.n = 0 THEN NaN ELSE Inf
      [] y.k = "inf" -> IF x.n = 0 THEN NaN ELSE Inf
      [] OTHER -> Float(x.n * y.n, x.d * y.d)

\* x / y, for x, y >= 0: x/0 is +infinity, 0/0 and inf/inf are NaN
FDiv(x, y) ==
    CASE x.k = "na" \/ y.k = "na" -> NA
      [] x.k = "nan" \/ y.k = "nan" -> NaN
      [] x.k = "inf" -> IF y.k = "inf" THEN NaN ELSE Inf
      [] y.k = "inf" -> Num(0)
      [] y.n = 0 -> IF x.n = 0 THEN NaN ELSE Inf
      [] OTHER -> Float(x.n * y.d, x.d * y.n)

\* x > y for a finite y; a comparison with NaN or NA is not true
FGt(x, y) ==
    CASE x.k = "inf" -> TRUE
      [] x.k = "fin" -> x.n * y.d > y.n * x.d
      [] OTHER -> FALSE

\* abs(x - y) > t for finite y and t
FAbsDiffGt(x, y, t) ==
    CASE x.k = "inf" -> TRUE
      [] x.k = "fin" -> Abs(x.n * y.d - y.n * x.d) > (t.n * x.d * y.d) \div t.d
      [] OTHER -> FALSE

\* isna() of a float64 column: NaN is the missing value
IsNaFloat(x) == x.k \in {"nan", "na"}
\* isna() of a masked (Int64/Float64) column: only pd.NA is missing
IsNaMasked(x) == x.k = "na"

---------------------------------------------------------------------------
\* Sequences and strings

RECURSIVE Flatten(_)
Flatten(ss) == IF ss = <<>> THEN <<>> ELSE Head(ss) \o Flatten(Tail(ss))

\* The rows of pool at the positions I, in the pool's order.
RECURSIVE PickRows(_, _, _)
PickRows(pool, I, i) ==
    IF i > Len(pool) THEN <<>>
    ELSE (IF i \in I THEN <<pool[i]>> ELSE <<>>) \o PickRows(pool, I, i + 1)

\* Every table of at most MaxRows rows drawn from pool, in the pool's order.
Tables(pool) ==
    { PickRows(pool, I, 1) :
        I \in { J \in SUBSET (1 .. Len(pool)) : Cardinality(J) <= MaxRows } }

Range(s) == { s[i] : i \in 1 .. Len(s) }

\* Python's order of the strings that are sorted (group keys), as a rank.
StringOrder ==
    << "CAN", "Canada", "ESP", "IBE", "Iberia", "NAM", "North America",
       "Spain", "USA", "United States" >>

StrRank(s) == CHOOSE i \in 1 .. Len(StringOrder) : StringOrder[i] = s

---------------------------------------------------------------------------
\* The four CSV files (raw column names), as the loaders find them

RawPopulation(entity, code, year, v) ==
    [ Entity |-> entity, Code |-> code, Year |-> year,
      population__sex_all__age_all__variant_estimates |-> v ]

RawRenewable(entity, code, year, v) ==
    [ Entity |-> entity, Code |-> code, Year |-> year,
      renewables__pct_equivalent_primary_energy |-> v ]

RawConsumption(entity, code, year, v) ==
    [ Entity |-> entity, Code |-> code, Year |-> year,
      primary_energy_consumption__twh |-> v ]

RawGrouping(rcode, rname, code) ==
    [ region_entity_code |-> rcode, region_name |-> rname, entity_code |-> code ]

---------------------------------------------------------------------------
\* Normalizers

\* _prepare_population: rename and select the four columns
PreparePopulation(df) ==
    [ i \in 1 .. Len(df) |->
        [ entity |-> df[i].Entity, entity_code |-> df[i].Code, year |-> df[i].Year,
          population |-> df[i].population__sex_all__age_all__variant_estimates ] ]

\* population asset: rename, drop the rows without a population, cast to int
AssetPopulationFrame(df) ==
    SelectSeq(PreparePopulation(df), LAMBDA r : ~IsNaFloat(r.population))

\* _prepare_renewable_energy / renewable_coverage: rename, percent -> fraction
PrepareRenewable(df) ==
    [ i \in 1 .. Len(df) |->
        [ entity |-> df[i].Entity, entity_code |-> df[i].Code, year |-> df[i].Year,
          renewable_energy_pct |->
              FDiv(df[i].renewables__pct_equivalent_primary_energy, Num(100)) ] ]

\* _prepare_energy_consumption: rename, TWh -> GWh
PrepareConsumptionGwh(df) ==
    [ i \in 1 .. Len(df) |->
        [ entity |-> df[i].Entity, entity_code |-> df[i].Code, year |-> df[i].Year,
          energy_consumption |->
              FMul(df[i].primary_energy_consumption__twh, Num(1000)) ] ]

\* energy_consumption asset: rename only, the unit stays TWh
AssetConsumptionFrame(df) ==
    [ i \in 1 .. Len(df) |->
        [ entity |-> df[i].Entity, entity_code |-> df[i].Code, year |-> df[i].Year,
          energy_consumption |-> df[i].primary_energy_consumption__twh ] ]

---------------------------------------------------------------------------
\* Breakdown combiner

SameKey(a, b) ==
    a.entity = b.entity /\ a.entity_code = b.entity_code /\ a.year = b.year

\* LeftMerge as an inner join: a left row without a match is dropped.
InnerMerge(left, right, col) ==
    Flatten([ i \in 1 .. Len(left) |->
        LET m == SelectSeq(right, LAMBDA r : SameKey(left[i], r))
        IN  [ j \in 1 .. Len(m) |-> left[i] @@ (col :> m[j][col]) ] ])

\* DataFrame.merge(right, how="left", on=[entity, entity_code, year]) adding the
\* column col: every left row once per matching right row (in the right frame's
\* order), or once with NaN when nothing matches.
LeftMerge(left, right, col) ==
    Flatten([ i \in 1 .. Len(left) |->
        LET m == SelectSeq(right, LAMBDA r : SameKey(left[i], r))
        IN  IF m = <<>>
            THEN << left[i] @@ (col :> NaN) >>
            ELSE [ j \in 1 .. Len(m) |-> left[i] @@ (col :> m[j][col]) ] ])

FillNa0(x) == IF IsNaFloat(x) THEN Num(0) ELSE x

\* BreakdownRow with fossil_energy_pct assigned before the fillna: the share of
\* a row without a match stays NaN.
BreakdownRowUnfilled(r) ==
    LET pct == FillNa0(r.renewable_energy_pct)
        fossil == FSub(Num(1), r.renewable_energy_pct)
    IN  [ entity |-> r.entity, entity_code |-> r.entity_code, year |-> r.year,
          energy_consumption |-> r.energy_consumption,
          renewable_energy_pct |-> pct,
          fossil_energy_pct |-> fossil,
          renewable_energy_consumption |-> FMul(r.energy_consumption, pct),
          fossil_energy_consumption |-> FMul(r.energy_consumption, fossil) ]

\* The four assigned columns of one merged row.
BreakdownRow(r) ==
    LET pct == FillNa0(r.renewable_energy_pct)
        fossil == FSub(Num(1), pct)
    IN  [ entity |-> r.entity, entity_code |-> r.entity_code, year |-> r.year,
          energy_consumption |-> r.energy_consumption,
          renewable_energy_pct |-> pct,
          fossil_energy_pct |-> fossil,
          renewable_energy_consumption |-> FMul(r.energy_consumption, pct),
          fossil_energy_consumption |-> FMul(r.energy_consumption, fossil) ]

\* energy_breakdown / _define_fossil_and_renewable_coverage
Breakdown(consumption, renewable) ==
    LET merged == LeftMerge(consumption, renewable, "renewable_energy_pct")
    IN  [ i \in 1 .. Len(merged) |-> BreakdownRow(merged[i]) ]

---------------------------------------------------------------------------
\* Population joiner

\* _add_population_data_to_energy_breakdown: a float64 population, NaN when
\* no population row matches
AddPopulation(breakdown, population) == LeftMerge(breakdown, population, "population")

\* astype({"population": "Int64"}): NaN becomes the masked value pd.NA
ToInt64(x) == IF IsNaFloat(x) THEN NA ELSE x

\* energy_breakdown_with_population
AddPopulationInt64(breakdown, population) ==
    LET merged == LeftMerge(breakdown, population, "population")
    IN  [ i \in 1 .. Len(merged) |->
            [ merged[i] EXCEPT !.population = ToInt64(@) ] ]

---------------------------------------------------------------------------
\* Regional aggregator

\* EntitiesOfInterest as a cross join: every row under every mapping row.
EntitiesOfInterestCross(df, grouping) ==
    Flatten([ i \in 1 .. Len(df) |->
        [ j \in 1 .. Len(grouping) |->
            df[i] @@ ( "region_entity_code" :> grouping[j].region_entity_code
                       @@ "region_name" :> grouping[j].region_name ) ] ])

\* merge(regional_grouping, on="entity_code"): the inner join, one row per
\* matching mapping row
EntitiesOfInterest(df, grouping) ==
    Flatten([ i \in 1 .. Len(df) |->
        LET m == SelectSeq(grouping, LAMBDA g : g.entity_code = df[i].entity_code)
        IN  [ j \in 1 .. Len(m) |->
                df[i] @@ ( "region_entity_code" :> m[j].region_entity_code
                           @@ "region_name" :> m[j].region_name ) ] ])

GroupKey(r) == << r.region_entity_code, r.region_name, r.year >>

\* The order of the group keys (groupby sorts them).
KeyLess(a, b) ==
    \/ StrRank(a[1]) < StrRank(b[1])
    \/ a[1] = b[1] /\ StrRank(a[2]) < StrRank(b[2])
    \/ a[1] = b[1] /\ a[2] = b[2] /\ a[3] < b[3]

RECURSIVE SortKeys(_)
SortKeys(S) ==
    IF S = {} THEN <<>>
    ELSE LET m == CHOOSE x \in S : \A y \in S : ~KeyLess(y, x)
         IN  << m >> \o SortKeys(S \ {m})

\* Series.sum(): the missing values are skipped, an empty sum is 0
RECURSIVE SumSkipNa(_)
SumSkipNa(xs) ==
    IF xs = <<>> THEN Num(0)
    ELSE IF IsNaFloat(Head(xs)) THEN SumSkipNa(Tail(xs))
    ELSE FAdd(Head(xs), SumSkipNa(Tail(xs)))

Column(df, col) == [ i \in 1 .. Len(df) |-> df[i][col] ]

\* RollupRow with the two shares averaged over the member rows instead of
\* recomputed from the sums.
RollupRowAveraged(key, members) ==
    LET n == Num(Len(members))
    IN  [ entity |-> key[2], entity_code |-> key[1], year |-> key[3],
          population |-> SumSkipNa(Column(members, "population")),
          energy_consumption |-> SumSkipNa(Column(members, "energy_consumption")),
          renewable_energy_consumption |->
              SumSkipNa(Column(members, "renewable_energy_consumption")),
          fossil_energy_consumption |->
              SumSkipNa(Column(members, "fossil_energy_consumption")),
          renewable_energy_pct |->
              FDiv(SumSkipNa(Column(members, "renewable_energy_pct")), n),
          fossil_energy_pct |->
              FDiv(SumSkipNa(Column(members, "fossil_energy_pct")), n) ]

\* RollupRow with a population sum that is missing as soon as one member's
\* population is missing.
RollupRowKeepNa(key, members) ==
    LET total == SumSkipNa(Column(members, "energy_consumption"))
        pops == Column(members, "population")
    IN  [ entity |-> key[2], entity_code |-> key[1], year |-> key[3],
          population |-> IF \E i \in 1 .. Len(pops) : IsNaFloat(pops[i])
                         THEN NaN ELSE SumSkipNa(pops),
          energy_consumption |-> total,
          renewable_energy_consumption |->
              SumSkipNa(Column(members, "renewable_energy_consumption")),
          fossil_energy_consumption |->
              SumSkipNa(Column(members, "fossil_energy_consumption")),
          renewable_energy_pct |->
              FDiv(SumSkipNa(Column(members, "renewable_energy_consumption")), total),
          fossil_energy_pct |->
              FDiv(SumSkipNa(Column(members, "fossil_energy_consumption")), total) ]

\* One group: the four sums, then the two shares recomputed from the sums.
RollupRow(key, members) ==
    LET total == SumSkipNa(Column(members, "energy_consumption"))
        renewable == SumSkipNa(Column(members, "renewable_energy_consumption"))
        fossil == SumSkipNa(Column(members, "fossil_energy_consumption"))
    IN  [ entity |-> key[2], entity_code |-> key[1], year |-> key[3],
          population |-> SumSkipNa(Column(members, "population")),
          energy_consumption |-> total,
          renewable_energy_consumption |-> renewable,
          fossil_energy_consumption |-> fossil,
          renewable_energy_pct |-> FDiv(renewable, total),
          fossil_energy_pct |-> FDiv(fossil, total) ]

\* energy_breakdown_with_new_regions / _create_regional_rollups
RegionalRollups(df, grouping) ==
    LET eoi == EntitiesOfInterest(df, grouping)
        keys == SortKeys({ GroupKey(eoi[i]) : i \in 1 .. Len(eoi) })
    IN  [ g \in 1 .. Len(keys) |->
            RollupRow(keys[g], SelectSeq(eoi, LAMBDA r : GroupKey(r) = keys[g])) ]

---------------------------------------------------------------------------
\* Per-capita calculator

\* float64 / float64
DivFloat(x, population) == FDiv(x, population)

\* float64 / Int64, a masked Float64: pd.NA where the population is pd.NA;
\* a NaN quotient (0/0) stays NaN, not missing, unless the pandas build turns
\* NaN into pd.NA (nanIsNa)
DivMasked(x, population, nanIsNa) ==
    LET q == FDiv(x, population)
    IN  IF population.k = "na" THEN NA
        ELSE IF q.k = "nan" /\ nanIsNa THEN NA
        ELSE q

PerCapitaRow(r, masked, nanIsNa) ==
    LET Div(x) == IF masked THEN DivMasked(x, r.population, nanIsNa)
                  ELSE DivFloat(x, r.population)
    IN  r @@ ( "energy_consumption_per_capita" :> Div(r.energy_consumption)
               @@ "renewable_energy_per_capita" :> Div(r.renewable_energy_consumption)
               @@ "fossil_energy_per_capita" :> Div(r.fossil_energy_consumption) )

\* PerCapita restricted to the rows with a population other than 0 or null.
PerCapitaFiltered(all, masked, nanIsNa) ==
    LET kept == SelectSeq(all, LAMBDA r : IsFin(r.population) /\ r.population.n # 0)
    IN  [ i \in 1 .. Len(kept) |-> PerCapitaRow(kept[i], masked, nanIsNa) ]

\* energy_breakdown_per_capita / _compute_per_capita_energy_consumption
PerCapita(all, masked, nanIsNa) ==
    [ i \in 1 .. Len(all) |-> PerCapitaRow(all[i], masked, nanIsNa) ]

---------------------------------------------------------------------------
\* Validation checks

max_threshold == Float(1, 10)
tolerance == Float(1, 1000000)

\* per_capita_plausibility_check: violations
PlausibilityViolations(df) ==
    Len(SelectSeq(df, LAMBDA r : FGt(r.energy_consumption_per_capita, max_threshold)))

\* energy_conservation_check: invalid_count
ConservationInvalidCount(df) ==
    Len(SelectSeq(df, LAMBDA r :
        FAbsDiffGt(FAdd(r.fossil_energy_pct, r.renewable_energy_pct), Num(1), tolerance)))

---------------------------------------------------------------------------
\* Report

PerCapitaColumns ==
    { "renewable_energy_per_capita", "fossil_energy_per_capita",
      "energy_consumption_per_capita" }

Float64Columns ==
    { "energy_consumption", "renewable_energy_pct", "fossil_energy_pct",
      "renewable_energy_consumption", "fossil_energy_consumption" }

\* The script's filter: the three per-capita values are not NaN and not +inf.
ValidRowBasic(r) ==
    \A c \in PerCapitaColumns : ~IsNaFloat(r[c]) /\ r[c].k # "inf"

\* The asset's filter: dropna on the three (masked) per-capita columns, then
\* every infinity of every column replaced by pd.NA, then dropna on every column.
ValidRowAdvanced(r) ==
    /\ \A c \in PerCapitaColumns : ~IsNaMasked(r[c]) /\ r[c].k # "inf"
    /\ ~IsNaMasked(r.population) /\ r.population.k # "inf"
    /\ \A c \in Float64Columns : ~IsNaFloat(r[c]) /\ r[c].k # "inf"

valid_energy_data(df, masked) ==
    SelectSeq(df, LAMBDA r : IF masked THEN ValidRowAdvanced(r) ELSE ValidRowBasic(r))

\* notna() of the population column
HasPopulation(r, masked) ==
    IF masked THEN ~IsNaMasked(r.population) ELSE ~IsNaFloat(r.population)

\* The largest year of a row with a population; 0 stands for the NaN of an
\* empty selection (no year is >= NaN - 9).
latest_year_with_population(df, masked) ==
    LET ys == { df[i].year : i \in { j \in 1 .. Len(df) : HasPopulation(df[j], masked) } }
    IN  IF ys = {} THEN 0 ELSE CHOOSE y \in ys : \A z \in ys : z <= y

TopN == 10
PastYears == 9

\* x > y between two readings of a column (NaN compares false)
ValueGt(x, y) ==
    /\ x.k \in {"fin", "inf"} /\ y.k \in {"fin", "inf"}
    /\ \/ x.k = "inf" /\ y.k = "fin"
       \/ x.k = "fin" /\ y.k = "fin" /\ x.n * y.d > y.n * x.d

\* idxmax of one group: the first row holding the largest value.  A NaN that is
\* not missing (masked column) is the maximum or is skipped, as the build has it.
IdxMax(rows, col, nanWins) ==
    LET nans == { i \in 1 .. Len(rows) : rows[i][col].k = "nan" }
        nums == (1 .. Len(rows)) \ nans
        First(S) == CHOOSE i \in S : \A j \in S : i <= j
    IN  IF nans # {} /\ (nanWins \/ nums = {}) THEN First(nans)
        ELSE First({ i \in nums : \A j \in nums : ~ValueGt(rows[j][col], rows[i][col]) })

RECURSIVE SortNames(_)
SortNames(S) ==
    IF S = {} THEN <<>>
    ELSE LET m == CHOOSE x \in S : \A y \in S : StrRank(x) <= StrRank(y)
         IN  << m >> \o SortNames(S \ {m})

\* valid.loc[valid.groupby("entity")[col].idxmax()]: one row per entity, in the
\* order of the entity names
MaxRowPerEntity(valid, col, nanWins) ==
    LET names == SortNames({ valid[i].entity : i \in 1 .. Len(valid) })
    IN  [ g \in 1 .. Len(names) |->
            LET rows == SelectSeq(valid, LAMBDA r : r.entity = names[g])
            IN  rows[IdxMax(rows, col, nanWins)] ]

\* Stable descending insertion of r by col; NaN goes last.
RECURSIVE InsertDesc(_, _, _)
InsertDesc(sorted, r, col) ==
    IF sorted = <<>> THEN << r >>
    ELSE IF ValueGt(r[col], Head(sorted)[col]) \/
            (Head(sorted)[col].k = "nan" /\ r[col].k # "nan")
         THEN << r >> \o sorted
         ELSE << Head(sorted) >> \o InsertDesc(Tail(sorted), r, col)

RECURSIVE SortDesc(_, _)
SortDesc(rows, col) ==
    IF rows = <<>> THEN <<>>
    ELSE InsertDesc(SortDesc(SubSeq(rows, 1, Len(rows) - 1), col), rows[Len(rows)], col)

\* DataFrame.nlargest(10, col)[["entity", "year", col]]
NLargest(rows, col) ==
    LET s == SortDesc(rows, col)
        top == SubSeq(s, 1, IF Len(s) < TopN THEN Len(s) ELSE TopN)
    IN  [ i \in 1 .. Len(top) |->
            [ entity |-> top[i].entity, year |-> top[i].year, value |-> top[i][col] ] ]

Top10Sheet(valid, col, nanWins) == NLargest(MaxRowPerEntity(valid, col, nanWins), col)

PivotRegions == { "North America", "Iberia" }

\* nam_iberia_data
nam_iberia_data(valid, latest) ==
    SelectSeq(valid, LAMBDA r : r.year >= latest - PastYears /\ latest # 0
                                /\ r.entity \in PivotRegions)

\* pivot(index="year", columns="entity", values=metric): the cells of the sheet
PivotSheet(rows, metric) ==
    { [ year |-> rows[i].year, entity |-> rows[i].entity, value |-> rows[i][metric] ] :
        i \in 1 .. Len(rows) }

NoReport ==
    [ opened |-> FALSE, Top_10_Renewable_Max |-> <<>>, Top_10_Fossil_Max |-> <<>>,
      Renewable_Energy_Per_Capita |-> {}, Fossil_Energy_Percent |-> {},
      Energy_per_Capita |-> {}, Raw_Data |-> <<>> ]

\* The body of the ExcelWriter block: the six sheets.
Report(per_capita, masked, nanWins) ==
    LET valid == valid_energy_data(per_capita, masked)
        latest == latest_year_with_population(per_capita, masked)
        nam == nam_iberia_data(valid, latest)
    IN  [ opened |-> TRUE,
          Top_10_Renewable_Max |-> Top10Sheet(valid, "renewable_energy_per_capita", nanWins),
          Top_10_Fossil_Max |-> Top10Sheet(valid, "fossil_energy_per_capita", nanWins),
          Renewable_Energy_Per_Capita |-> PivotSheet(nam, "renewable_energy_per_capita"),
          Fossil_Energy_Percent |-> PivotSheet(nam, "fossil_energy_pct"),
          Energy_per_Capita |-> PivotSheet(nam, "energy_consumption_per_capita"),
          Raw_Data |-> per_capita ]

---------------------------------------------------------------------------
\* The CSV files a run can find on disk

EntityName(code) ==
    CASE code = "USA" -> "United States"
      [] code = "CAN" -> "Canada"
      [] code = "ESP" -> "Spain"

\* The cells << code, year, v >> for every code, year and value, in the file's
\* order (by entity, then year).
Rows(codes, years, vals) ==
    Flatten([ c \in 1 .. Len(codes) |->
        Flatten([ y \in 1 .. Len(years) |->
            [ v \in 1 .. Len(vals) |-> << codes[c], years[y], vals[v] >> ] ]) ])

MkConsumption(cells) ==
    [ i \in 1 .. Len(cells) |->
        RawConsumption(EntityName(cells[i][1]), cells[i][1], cells[i][2], Num(cells[i][3])) ]

MkRenewable(cells) ==
    [ i \in 1 .. Len(cells) |->
        RawRenewable(EntityName(cells[i][1]), cells[i][1], cells[i][2], Num(cells[i][3])) ]

\* -1 marks an empty cell
MkPopulation(cells) ==
    [ i \in 1 .. Len(cells) |->
        RawPopulation(EntityName(cells[i][1]), cells[i][1], cells[i][2],
                      IF cells[i][3] < 0 THEN NaN ELSE Num(cells[i][3])) ]

\* primary-energy-cons.csv (TWh)
ConsumptionFiles(ds) ==
    IF ds = "energy"
    THEN Tables(MkConsumption(Rows(<< "CAN" >>, << 2020 >>, << 1, 2000 >>)
                              \o Rows(<< "ESP" >>, << 2020 >>, << 0, 2 >>)
                              \o Rows(<< "USA" >>, << 2019 >>, << 1 >>)
                              \o Rows(<< "USA" >>, << 2020 >>, << 2, 2000 >>)))
    ELSE Tables(MkConsumption(Rows(<< "CAN" >>, << 2020 >>, << 2 >>)
                              \o Rows(<< "ESP", "USA" >>, << 2020 >>, << 0, 2 >>)))

\* renewable-share-energy.csv (whole-number percentages)
RenewableFiles(ds) ==
    IF ds = "energy"
    THEN Tables(MkRenewable(Rows(<< "CAN", "ESP" >>, << 2020 >>, << 20 >>)
                            \o Rows(<< "USA" >>, << 2020 >>, << 20, 50 >>)))
    ELSE Tables(MkRenewable(Rows(<< "USA" >>, << 2020 >>, << 50 >>)))

\* population-with-un-projections.csv
PopulationFiles(ds) ==
    IF ds = "energy"
    THEN Tables(MkPopulation(Rows(<< "USA" >>, << 2020 >>, << 10 >>)))
    ELSE Tables(MkPopulation(Rows(<< "CAN" >>, << 2020 >>, << 10 >>)
                             \o Rows(<< "ESP" >>, << 2020 >>, << 0, 10 >>)
                             \o Rows(<< "USA" >>, << 2020 >>, << -1, 0, 10 >>)))

\* regional-grouping.csv
GroupingFiles ==
    Tables(<< RawGrouping("NAM", "North America", "CAN"),
              RawGrouping("IBE", "Iberia", "ESP"),
              RawGrouping("NAM", "North America", "USA") >>)

---------------------------------------------------------------------------
\* State

VARIABLES
    variant,                \* "basic": the script; "advanced": the asset graph
    dataset,                \* which family of CSV files is on disk
    pc,                     \* the script's next statement ("assets" in the graph)
    status,                 \* per asset: "pending", "done" or "failed"
    checks,                 \* per asset check: [ran, passed, count]
    population,
    energy_consumption,
    renewable_coverage,
    regional_grouping,
    energy_breakdown,
    energy_breakdown_with_population,
    energy_breakdown_with_new_regions,
    energy_breakdown_per_capita,
    report                  \* energy_analysis_report.xlsx

frames ==
    << population, energy_consumption, renewable_coverage, regional_grouping,
       energy_breakdown, energy_breakdown_with_population,
       energy_breakdown_with_new_regions, energy_breakdown_per_capita >>

vars == << variant, dataset, pc, status, checks, frames, report >>

Assets ==
    { "population", "energy_consumption", "renewable_coverage", "regional_grouping",
      "energy_breakdown", "energy_breakdown_with_population",
      "energy_breakdown_with_new_regions", "energy_breakdown_per_capita",
      "export_analysis_report" }

AssetChecks == { "per_capita_plausibility_check", "energy_conservation_check" }

\* Deps with the report writer taking no upstream asset.
DepsDetachedExport(a) ==
    CASE a = "energy_breakdown" -> { "energy_consumption", "renewable_coverage" }
      [] a = "energy_breakdown_with_population" -> { "energy_breakdown", "population" }
      [] a = "energy_breakdown_with_new_regions" ->
            { "energy_breakdown_with_population", "regional_grouping" }
      [] a = "energy_breakdown_per_capita" ->
            { "energy_breakdown_with_population", "energy_breakdown_with_new_regions" }
      [] OTHER -> {}

\* The assets an asset function takes as parameters.
Deps(a) ==
    CASE a = "energy_breakdown" -> { "energy_consumption", "renewable_coverage" }
      [] a = "energy_breakdown_with_population" -> { "energy_breakdown", "population" }
      [] a = "energy_breakdown_with_new_regions" ->
            { "energy_breakdown_with_population", "regional_grouping" }
      [] a = "energy_breakdown_per_capita" ->
            { "energy_breakdown_with_population", "energy_breakdown_with_new_regions" }
      [] a = "export_analysis_report" -> { "energy_breakdown_per_capita" }
      [] OTHER -> {}

\* BlockingChecks with the plausibility check declared blocking as well.
BlockingChecksBoth(a) ==
    IF a = "energy_breakdown_with_new_regions" THEN { "energy_conservation_check" }
    ELSE IF a = "energy_breakdown_per_capita" THEN { "per_capita_plausibility_check" }
    ELSE {}

\* The checks declared blocking=True on an asset.
BlockingChecks(a) ==
    IF a = "energy_breakdown_with_new_regions" THEN { "energy_conservation_check" } ELSE {}

\* An asset runs once every asset it reads has materialized and every blocking
\* check on those has passed.
Ready(a) ==
    /\ variant = "advanced"
    /\ status[a] = "pending"
    /\ \A u \in Deps(a) :
          /\ status[u] = "done"
          /\ \A c \in BlockingChecks(u) : checks[c].ran /\ checks[c].passed

NotRun == [ ran |-> FALSE, passed |-> FALSE, count |-> 0 ]

Init ==
    /\ variant \in { "basic", "advanced" }
    /\ dataset \in { "energy", "population" }
    /\ pc = IF variant = "basic" THEN "load" ELSE "assets"
    /\ status = [ a \in Assets |-> "pending" ]
    /\ checks = [ c \in AssetChecks |-> NotRun ]
    /\ population = <<>>
    /\ energy_consumption = <<>>
    /\ renewable_coverage = <<>>
    /\ regional_grouping = <<>>
    /\ energy_breakdown = <<>>
    /\ energy_breakdown_with_population = <<>>
    /\ energy_breakdown_with_new_regions = <<>>
    /\ energy_breakdown_per_capita = <<>>
    /\ report = NoReport

---------------------------------------------------------------------------
\* The script (basic/renewable_coverage_analysis.py), statement by statement

\* Lines 151-154: the four reads; a read that raises ends the script.
BasicLoad ==
    /\ variant = "basic" /\ pc = "load"
    /\ \/ /\ population' \in PopulationFiles(dataset)
          /\ renewable_coverage' \in RenewableFiles(dataset)
          /\ energy_consumption' \in ConsumptionFiles(dataset)
          /\ regional_grouping' \in GroupingFiles
          /\ pc' = "prepare"
       \/ /\ pc' = "aborted"
          /\ UNCHANGED << population, renewable_coverage, energy_consumption,
                          regional_grouping >>
    /\ UNCHANGED << variant, dataset, status, checks, energy_breakdown,
                    energy_breakdown_with_population, energy_breakdown_with_new_regions,
                    energy_breakdown_per_capita, report >>

\* Lines 158-160
BasicPrepare ==
    /\ variant = "basic" /\ pc = "prepare"
    /\ population' = PreparePopulation(population)
    /\ renewable_coverage' = PrepareRenewable(renewable_coverage)
    /\ energy_consumption' = PrepareConsumptionGwh(energy_consumption)
    /\ pc' = "breakdown"
    /\ UNCHANGED << variant, dataset, status, checks, regional_grouping, energy_breakdown,
                    energy_breakdown_with_population, energy_breakdown_with_new_regions,
                    energy_breakdown_per_capita, report >>

\* Lines 163-165
BasicBreakdown ==
    /\ variant = "basic" /\ pc = "breakdown"
    /\ energy_breakdown' = Breakdown(energy_consumption, renewable_coverage)
    /\ pc' = "add_population"
    /\ UNCHANGED << variant, dataset, status, checks, population, energy_consumption,
                    renewable_coverage, regional_grouping,
                    energy_breakdown_with_population, energy_breakdown_with_new_regions,
                    energy_breakdown_per_capita, report >>

\* Lines 169-171
BasicAddPopulation ==
    /\ variant = "basic" /\ pc = "add_population"
    /\ energy_breakdown_with_population' = AddPopulation(energy_breakdown, population)
    /\ pc' = "rollups"
    /\ UNCHANGED << variant, dataset, status, checks, population, energy_consumption,
                    renewable_coverage, regional_grouping, energy_breakdown,
                    energy_breakdown_with_new_regions, energy_breakdown_per_capita,
                    report >>

\* Lines 175-177
BasicRollups ==
    /\ variant = "basic" /\ pc = "rollups"
    /\ energy_breakdown_with_new_regions' =
          RegionalRollups(energy_breakdown_with_population, regional_grouping)
    /\ pc' = "per_capita"
    /\ UNCHANGED << variant, dataset, status, checks, population, energy_consumption,
                    renewable_coverage, regional_grouping, energy_breakdown,
                    energy_breakdown_with_population, energy_breakdown_per_capita,
                    report >>

\* Lines 179-184: the rollups first, then the countries
BasicPerCapita ==
    /\ variant = "basic" /\ pc = "per_capita"
    /\ energy_breakdown_per_capita' =
          PerCapita(energy_breakdown_with_new_regions \o energy_breakdown_with_population,
                    FALSE, FALSE)
    /\ pc' = "export"
    /\ UNCHANGED << variant, dataset, status, checks, population, energy_consumption,
                    renewable_coverage, regional_grouping, energy_breakdown,
                    energy_breakdown_with_population, energy_breakdown_with_new_regions,
                    report >>

\* Lines 196-306
BasicExport ==
    /\ variant = "basic" /\ pc = "export"
    /\ report' = Report(energy_breakdown_per_capita, FALSE, FALSE)
    /\ pc' = "done"
    /\ UNCHANGED << variant, dataset, status, checks, frames >>

---------------------------------------------------------------------------
\* The asset graph (advanced/.../defs/assets.py), one action per asset or check

Done(a) == status' = [ status EXCEPT ![a] = "done" ]
Failed(a) == status' = [ status EXCEPT ![a] = "failed" ]

AssetPopulation ==
    /\ Ready("population")
    /\ \/ /\ \E df \in PopulationFiles(dataset) : population' = AssetPopulationFrame(df)
          /\ Done("population")
       \/ /\ Failed("population")
          /\ UNCHANGED population
    /\ UNCHANGED << variant, dataset, pc, checks, energy_consumption, renewable_coverage,
                    regional_grouping, energy_breakdown, energy_breakdown_with_population,
                    energy_breakdown_with_new_regions, energy_breakdown_per_capita,
                    report >>

AssetEnergyConsumption ==
    /\ Ready("energy_consumption")
    /\ \/ /\ \E df \in ConsumptionFiles(dataset) :
                energy_consumption' = AssetConsumptionFrame(df)
          /\ Done("energy_consumption")
       \/ /\ Failed("energy_consumption")
          /\ UNCHANGED energy_consumption
    /\ UNCHANGED << variant, dataset, pc, checks, population, renewable_coverage,
                    regional_grouping, energy_breakdown, energy_breakdown_with_population,
                    energy_breakdown_with_new_regions, energy_breakdown_per_capita,
                    report >>

AssetRenewableCoverage ==
    /\ Ready("renewable_coverage")
    /\ \/ /\ \E df \in RenewableFiles(dataset) : renewable_coverage' = PrepareRenewable(df)
          /\ Done("renewable_coverage")
       \/ /\ Failed("renewable_coverage")
          /\ UNCHANGED renewable_coverage
    /\ UNCHANGED << variant, dataset, pc, checks, population, energy_consumption,
                    regional_grouping, energy_breakdown, energy_breakdown_with_population,
                    energy_breakdown_with_new_regions, energy_breakdown_per_capita,
                    report >>

AssetRegionalGrouping ==
    /\ Ready("regional_grouping")
    /\ \/ /\ regional_grouping' \in GroupingFiles
          /\ Done("regional_grouping")
       \/ /\ Failed("regional_grouping")
          /\ UNCHANGED regional_grouping
    /\ UNCHANGED << variant, dataset, pc, checks, population, energy_consumption,
                    renewable_coverage, energy_breakdown, energy_breakdown_with_population,
                    energy_breakdown_with_new_regions, energy_breakdown_per_capita,
                    report >>

AssetEnergyBreakdown ==
    /\ Ready("energy_breakdown")
    /\ energy_breakdown' = Breakdown(energy_consumption, renewable_coverage)
    /\ Done("energy_breakdown")
    /\ UNCHANGED << variant, dataset, pc, checks, population, energy_consumption,
                    renewable_coverage, regional_grouping,
                    energy_breakdown_with_population, energy_breakdown_with_new_regions,
                    energy_breakdown_per_capita, report >>

AssetEnergyBreakdownWithPopulation ==
    /\ Ready("energy_breakdown_with_population")
    /\ energy_breakdown_with_population' = AddPopulationInt64(energy_breakdown, population)
    /\ Done("energy_breakdown_with_population")
    /\ UNCHANGED << variant, dataset, pc, checks, population, energy_consumption,
                    renewable_coverage, regional_grouping, energy_breakdown,
                    energy_breakdown_with_new_regions, energy_breakdown_per_capita,
                    report >>

AssetEnergyBreakdownWithNewRegions ==
    /\ Ready("energy_breakdown_with_new_regions")
    /\ energy_breakdown_with_new_regions' =
          RegionalRollups(energy_breakdown_with_population, regional_grouping)
    /\ Done("energy_breakdown_with_new_regions")
    /\ UNCHANGED << variant, dataset, pc, checks, population, energy_consumption,
                    renewable_coverage, regional_grouping, energy_breakdown,
                    energy_breakdown_with_population, energy_breakdown_per_capita,
                    report >>

\* One run of a check on its materialized asset.
CheckResult(invalid) == [ ran |-> TRUE, passed |-> invalid = 0, count |-> invalid ]

EnergyConservationCheck ==
    /\ variant = "advanced"
    /\ status["energy_breakdown_with_new_regions"] = "done"
    /\ ~checks["energy_conservation_check"].ran
    /\ checks' = [ checks EXCEPT !["energy_conservation_check"] =
                      CheckResult(ConservationInvalidCount(energy_breakdown_with_new_regions)) ]
    /\ UNCHANGED << variant, dataset, pc, status, frames, report >>

\* The countries first, then the rollups.
AssetEnergyBreakdownPerCapita ==
    /\ Ready("energy_breakdown_per_capita")
    /\ \E nanIsNa \in BOOLEAN :
          energy_breakdown_per_capita' =
              PerCapita(energy_breakdown_with_population \o energy_breakdown_with_new_regions,
                        TRUE, nanIsNa)
    /\ Done("energy_breakdown_per_capita")
    /\ UNCHANGED << variant, dataset, pc, checks, population, energy_consumption,
                    renewable_coverage, regional_grouping, energy_breakdown,
                    energy_breakdown_with_population, energy_breakdown_with_new_regions,
                    report >>

PerCapitaPlausibilityCheck ==
    /\ variant = "advanced"
    /\ status["energy_breakdown_per_capita"] = "done"
    /\ ~checks["per_capita_plausibility_check"].ran
    /\ checks' = [ checks EXCEPT !["per_capita_plausibility_check"] =
                      CheckResult(PlausibilityViolations(energy_breakdown_per_capita)) ]
    /\ UNCHANGED << variant, dataset, pc, status, frames, report >>

ExportAnalysisReport ==
    /\ Ready("export_analysis_report")
    /\ \E nanWins \in BOOLEAN : report' = Report(energy_breakdown_per_capita, TRUE, nanWins)
    /\ Done("export_analysis_report")
    /\ UNCHANGED << variant, dataset, pc, checks, frames >>

---------------------------------------------------------------------------

Next ==
    \/ BasicLoad
    \/ BasicPrepare
    \/ BasicBreakdown
    \/ BasicAddPopulation
    \/ BasicRollups
    \/ BasicPerCapita
    \/ BasicExport
    \/ AssetPopulation
    \/ AssetEnergyConsumption
    \/ AssetRenewableCoverage
    \/ AssetRegionalGrouping
    \/ AssetEnergyBreakdown
    \/ AssetEnergyBreakdownWithPopulation
    \/ AssetEnergyBreakdownWithNewRegions
    \/ EnergyConservationCheck
    \/ AssetEnergyBreakdownPerCapita
    \/ PerCapitaPlausibilityCheck
    \/ ExportAnalysisReport

Spec == Init /\ [][Next]_vars

---------------------------------------------------------------------------
\* Properties

\* The stage has produced its frame.
BreakdownComputed ==
    \/ variant = "advanced" /\ status["energy_breakdown"] = "done"
    \/ variant = "basic" /\ pc \in { "add_population", "rollups", "per_capita", "export", "done" }

RollupsComputed ==
    \/ variant = "advanced" /\ status["energy_breakdown_with_new_regions"] = "done"
    \/ variant = "basic" /\ pc \in { "per_capita", "export", "done" }

PerCapitaComputed ==
    \/ variant = "advanced" /\ status["energy_breakdown_per_capita"] = "done"
    \/ variant = "basic" /\ pc \in { "export", "done" }

\* abs(f + r - 1) < 1e-6 for two finite shares, in exact arithmetic
WithinTolerance(f, r) ==
    /\ IsFin(f) /\ IsFin(r)
    /\ Abs(f.n * r.d + r.n * f.d - f.d * r.d) <= (f.d * r.d - 1) \div 1000000

\* C1: in every row of the breakdown table, fossil_energy_pct +
\* renewable_energy_pct is 1.0 within 1e-6.
C1_BreakdownSharesSumToOne ==
    \A i \in 1 .. Len(energy_breakdown) :
        WithinTolerance(energy_breakdown[i].fossil_energy_pct,
                        energy_breakdown[i].renewable_energy_pct)

\* A breakdown table with a matched row (share 1/5) and a defaulted row (share 0).
C1_Witness ==
    /\ BreakdownComputed
    /\ \E i, j \in 1 .. Len(energy_breakdown) :
          /\ energy_breakdown[i].renewable_energy_pct = [ k |-> "fin", n |-> 1, d |-> 5 ]
          /\ energy_breakdown[j].renewable_energy_pct = [ k |-> "fin", n |-> 0, d |-> 1 ]

HasShare(c) ==
    \E j \in 1 .. Len(renewable_coverage) :
        /\ renewable_coverage[j].entity = c.entity
        /\ renewable_coverage[j].entity_code = c.entity_code
        /\ renewable_coverage[j].year = c.year

\* The breakdown row of a consumption row that has no renewable-share row.
DefaultedRow(c) ==
    [ entity |-> c.entity, entity_code |-> c.entity_code, year |-> c.year,
      energy_consumption |-> c.energy_consumption,
      renewable_energy_pct |-> [ k |-> "fin", n |-> 0, d |-> 1 ],
      fossil_energy_pct |-> [ k |-> "fin", n |-> 1, d |-> 1 ],
      renewable_energy_consumption |-> [ k |-> "fin", n |-> 0, d |-> 1 ],
      fossil_energy_consumption |-> c.energy_consumption ]

Occurrences(df, r) == Cardinality({ i \in 1 .. Len(df) : df[i] = r })

\* C2: the combiner keeps every consumption row; a row (of finite consumption)
\* without a renewable-share match comes out once, with renewable share 0, fossil
\* share 1, renewable consumption 0 and fossil consumption = energy_consumption,
\* and no row of the breakdown carries a null share.
C2_UnmatchedRowsKeptWithDefault ==
    BreakdownComputed =>
        /\ \A i \in 1 .. Len(energy_consumption) :
              LET c == energy_consumption[i]
              IN  /\ \E k \in 1 .. Len(energy_breakdown) :
                        /\ energy_breakdown[k].entity = c.entity
                        /\ energy_breakdown[k].entity_code = c.entity_code
                        /\ energy_breakdown[k].year = c.year
                        /\ energy_breakdown[k].energy_consumption = c.energy_consumption
                  /\ (~HasShare(c) /\ IsFin(c.energy_consumption)) =>
                        Occurrences(energy_breakdown, DefaultedRow(c))
                            = Occurrences(energy_consumption, c)
        /\ \A k \in 1 .. Len(energy_breakdown) :
              /\ ~IsNaFloat(energy_breakdown[k].renewable_energy_pct)
              /\ ~IsNaFloat(energy_breakdown[k].fossil_energy_pct)

\* A consumption row with no share row, beside one that has a share row.
C2_Witness ==
    /\ BreakdownComputed
    /\ \E i, j \in 1 .. Len(energy_consumption) :
          /\ ~HasShare(energy_consumption[i])
          /\ energy_consumption[i].energy_consumption.n > 0
          /\ IsFin(energy_consumption[i].energy_consumption)
          /\ HasShare(energy_consumption[j])
          /\ DefaultedRow(energy_consumption[i]) \in Range(energy_breakdown)

\* The (country row, mapping row) pairs that the mapping assigns to the region
\* and year of the rollup row R.
MemberPairs(R) ==
    { p \in (1 .. Len(energy_breakdown_with_population)) \X (1 .. Len(regional_grouping)) :
        /\ energy_breakdown_with_population[p[1]].entity_code
              = regional_grouping[p[2]].entity_code
        /\ regional_grouping[p[2]].region_entity_code = R.entity_code
        /\ regional_grouping[p[2]].region_name = R.entity
        /\ energy_breakdown_with_population[p[1]].year = R.year }

\* The exact sum << numerator, denominator >> of a column over member pairs,
\* skipping the values that are not finite.
RECURSIVE ExactSum(_, _)
ExactSum(P, col) ==
    IF P = {} THEN << 0, 1 >>
    ELSE LET p == CHOOSE x \in P : TRUE
             v == energy_breakdown_with_population[p[1]][col]
             rest == ExactSum(P \ {p}, col)
         IN  IF IsFin(v) THEN << rest[1] * v.d + v.n * rest[2], rest[2] * v.d >>
             ELSE rest

AllFinite(P, col) == \A p \in P : IsFin(energy_breakdown_with_population[p[1]][col])

\* x = part / total for a finite float x and two exact sums
IsQuotient(x, part, total) ==
    /\ IsFin(x)
    /\ x.n * part[2] * total[1] = x.d * part[1] * total[2]

\* C3: in every rollup row (of finite, non-zero summed consumption) each share is
\* the sum of the members' absolute consumption of that kind divided by the sum
\* of the members' energy_consumption, for the row's region and year.
C3_RollupSharesAreConsumptionWeighted ==
    RollupsComputed =>
        \A k \in 1 .. Len(energy_breakdown_with_new_regions) :
            LET R == energy_breakdown_with_new_regions[k]
                P == MemberPairs(R)
                total == ExactSum(P, "energy_consumption")
            IN  ( /\ AllFinite(P, "energy_consumption")
                  /\ total[1] > 0
                  /\ total[1] <= MaxFloat * total[2] ) =>
                    /\ IsQuotient(R.renewable_energy_pct,
                                  ExactSum(P, "renewable_energy_consumption"), total)
                    /\ IsQuotient(R.fossil_energy_pct,
                                  ExactSum(P, "fossil_energy_consumption"), total)

\* The spec's example, scaled: members with consumption 2 : 1 and shares 0.5 and
\* 0.2 roll up to 0.4 (the plain average is 0.35).
C3_Witness ==
    /\ RollupsComputed
    /\ \E k \in 1 .. Len(energy_breakdown_with_new_regions) :
          LET R == energy_breakdown_with_new_regions[k]
              P == MemberPairs(R)
          IN  /\ R.renewable_energy_pct = [ k |-> "fin", n |-> 2, d |-> 5 ]
              /\ Cardinality(P) = 2
              /\ { energy_breakdown_with_population[p[1]].renewable_energy_pct : p \in P }
                    = { [ k |-> "fin", n |-> 1, d |-> 2 ], [ k |-> "fin", n |-> 1, d |-> 5 ] }

\* C4 (as claimed): every rollup row's recomputed fossil_energy_pct +
\* renewable_energy_pct is 1.0 within 1e-6, also when the summed consumption is 0.
C4_RollupSharesSumToOne ==
    RollupsComputed =>
        \A k \in 1 .. Len(energy_breakdown_with_new_regions) :
            WithinTolerance(energy_breakdown_with_new_regions[k].fossil_energy_pct,
                            energy_breakdown_with_new_regions[k].renewable_energy_pct)

\* The float of an exact sum whose terms are all finite.
SumAsFloat(P, col) ==
    LET x == ExactSum(P, col)
    IN  IF ~AllFinite(P, col) /\ \E p \in P :
              energy_breakdown_with_population[p[1]][col].k = "inf"
        THEN [ k |-> "inf", n |-> 0, d |-> 1 ]
        ELSE IF x[1] > MaxFloat * x[2] THEN [ k |-> "inf", n |-> 0, d |-> 1 ]
        ELSE LET g == GCD(x[1], x[2]) IN [ k |-> "fin", n |-> x[1] \div g, d |-> x[2] \div g ]

MappedCodes == { regional_grouping[j].entity_code : j \in 1 .. Len(regional_grouping) }

\* C5: every country row, mapped or not, has its row in the per-capita output,
\* and each rollup row's population and consumption are the sums over exactly
\* the rows of the countries that the mapping assigns to its region (and year):
\* a country absent from the mapping adds to no rollup row.
C5_UnmappedCountriesOnlyInCountryRows ==
    /\ PerCapitaComputed =>
          \A i \in 1 .. Len(energy_breakdown_with_population) :
              \E k \in 1 .. Len(energy_breakdown_per_capita) :
                  LET b == energy_breakdown_with_population[i]
                      c == energy_breakdown_per_capita[k]
                  IN  /\ c.entity = b.entity /\ c.entity_code = b.entity_code
                      /\ c.year = b.year /\ c.population = b.population
                      /\ c.energy_consumption = b.energy_consumption
    /\ RollupsComputed =>
          \A k \in 1 .. Len(energy_breakdown_with_new_regions) :
              LET R == energy_breakdown_with_new_regions[k]
                  P == MemberPairs(R)
              IN  /\ P # {}
                  /\ R.population = SumAsFloat(P, "population")
                  /\ R.energy_consumption = SumAsFloat(P, "energy_consumption")
                  /\ R.renewable_energy_consumption
                        = SumAsFloat(P, "renewable_energy_consumption")
                  /\ R.fossil_energy_consumption = SumAsFloat(P, "fossil_energy_consumption")

\* A country outside the mapping, with consumption and population of its own,
\* beside a rollup row.
C5_Witness ==
    /\ PerCapitaComputed
    /\ energy_breakdown_with_new_regions # <<>>
    /\ \E i \in 1 .. Len(energy_breakdown_with_population) :
          LET b == energy_breakdown_with_population[i]
          IN  /\ b.entity_code \notin MappedCodes
              /\ IsFin(b.energy_consumption) /\ b.energy_consumption.n > 0
              /\ IsFin(b.population) /\ b.population.n > 0
              /\ \E k \in 1 .. Len(energy_breakdown_per_capita) :
                    /\ energy_breakdown_per_capita[k].entity_code = b.entity_code
                    /\ IsFin(energy_breakdown_per_capita[k].energy_consumption_per_capita)

\* The table the per-capita calculator is given: the concatenation of the
\* country table and the rollup table, in the order of the variant.
PerCapitaInput ==
    IF variant = "advanced"
    THEN energy_breakdown_with_population \o energy_breakdown_with_new_regions
    ELSE energy_breakdown_with_new_regions \o energy_breakdown_with_population

IsNullValue(x) == x.k \in { "nan", "na" }

ZeroOrNullPopulation(r) ==
    IsNullValue(r.population) \/ (IsFin(r.population) /\ r.population.n = 0)

\* q is x divided by p: the exact quotient for a population that is a non-zero
\* number, null for a null population, null or infinite for population 0.
IsPerCapitaOf(q, x, p) ==
    IF IsNullValue(p) THEN IsNullValue(q)
    ELSE IF IsFin(p) /\ p.n = 0 THEN q.k \in { "inf", "nan", "na" }
    ELSE IF IsFin(p) /\ IsFin(x)
         THEN IF x.n * p.d > MaxFloat * x.d * p.n THEN q.k = "inf"
              ELSE IsFin(q) /\ q.n * p.n * x.d = x.n * p.d * q.d
    ELSE IF IsFin(p) /\ x.k = "inf" THEN q.k = "inf"
    ELSE IsNullValue(q)

\* C6: the per-capita output has exactly one row per row of its input (the
\* country table and the rollup table together), in the same order, with the
\* input's fields unchanged and the three per-capita fields equal to the metric
\* divided by population; a row with population 0 or null is kept, with null or
\* infinite per-capita values.
C6_PerCapitaComputesNeverFilters ==
    PerCapitaComputed =>
        /\ Len(energy_breakdown_per_capita) = Len(PerCapitaInput)
        /\ \A i \in 1 .. Len(PerCapitaInput) :
              LET u == PerCapitaInput[i]
                  c == energy_breakdown_per_capita[i]
              IN  /\ \A f \in DOMAIN u : c[f] = u[f]
                  /\ IsPerCapitaOf(c.energy_consumption_per_capita,
                                   u.energy_consumption, u.population)
                  /\ IsPerCapitaOf(c.renewable_energy_per_capita,
                                   u.renewable_energy_consumption, u.population)
                  /\ IsPerCapitaOf(c.fossil_energy_per_capita,
                                   u.fossil_energy_consumption, u.population)

\* A per-capita output holding a row of population 0, a row of null population
\* and a row with a finite non-zero per-capita value, beside a rollup row.
C6_Witness ==
    /\ PerCapitaComputed
    /\ energy_breakdown_with_new_regions # <<>>
    /\ \E i, j, k \in 1 .. Len(energy_breakdown_per_capita) :
          /\ IsFin(energy_breakdown_per_capita[i].population)
          /\ energy_breakdown_per_capita[i].population.n = 0
          /\ energy_breakdown_per_capita[i].energy_consumption_per_capita.k = "inf"
          /\ IsNullValue(energy_breakdown_per_capita[j].population)
          /\ IsNullValue(energy_breakdown_per_capita[j].energy_consumption_per_capita)
          /\ IsFin(energy_breakdown_per_capita[k].energy_consumption_per_capita)
          /\ energy_breakdown_per_capita[k].energy_consumption_per_capita.n > 0

SheetEntry(r, col) == [ entity |-> r.entity, year |-> r.year, value |-> r[col] ]

\* C7 (as claimed): once the report is written, a per-capita row whose
\* population is 0 or null is in neither Top-10 sheet and in no pivot sheet, and
\* is present in Raw_Data.
C7_ZeroOrNullPopulationOnlyInRawData ==
    report.opened =>
        \A i \in 1 .. Len(energy_breakdown_per_capita) :
            LET r == energy_breakdown_per_capita[i]
            IN  ZeroOrNullPopulation(r) =>
                  /\ SheetEntry(r, "renewable_energy_per_capita")
                        \notin Range(report.Top_10_Renewable_Max)
                  /\ SheetEntry(r, "fossil_energy_per_capita")
                        \notin Range(report.Top_10_Fossil_Max)
                  /\ SheetEntry(r, "renewable_energy_per_capita")
                        \notin report.Renewable_Energy_Per_Capita
                  /\ SheetEntry(r, "fossil_energy_pct") \notin report.Fossil_Energy_Percent
                  /\ SheetEntry(r, "energy_consumption_per_capita")
                        \notin report.Energy_per_Capita
                  /\ \E k \in 1 .. Len(report.Raw_Data) : report.Raw_Data[k] = r

\* The shares of a rollup row are not within 1e-6 of summing to 1.0.
ViolatesConservation(r) == ~WithinTolerance(r.fossil_energy_pct, r.renewable_energy_pct)

\* The sum of the two shares is a number further than 1e-6 from 1.0.
DeviatesNumerically(r) ==
    LET f == r.fossil_energy_pct
        g == r.renewable_energy_pct
    IN  /\ f.k # "nan" /\ g.k # "nan"
        /\ \/ f.k = "inf" \/ g.k = "inf"
           \/ Abs(f.n * g.d + g.n * f.d - f.d * g.d) > (f.d * g.d) \div 1000000

\* C8 (as claimed): in a run whose rollup table holds a row violating
\* conservation, the per-capita computation and the report export never execute.
C8_ConservationViolationHaltsDownstream ==
    ( /\ RollupsComputed
      /\ \E k \in 1 .. Len(energy_breakdown_with_new_regions) :
            ViolatesConservation(energy_breakdown_with_new_regions[k]) )
    => ( ~PerCapitaComputed /\ ~report.opened )

\* What the asset graph does guarantee: the check counts the rows whose sum is
\* a number off 1.0 by more than 1e-6, and while it has not passed neither the
\* per-capita asset nor the export has run.
ConservationCheckBlocksAssetGraph ==
    variant = "advanced" =>
        /\ checks["energy_conservation_check"].ran =>
              checks["energy_conservation_check"].count =
                  Cardinality({ k \in 1 .. Len(energy_breakdown_with_new_regions) :
                      DeviatesNumerically(energy_breakdown_with_new_regions[k]) })
        /\ ~( checks["energy_conservation_check"].ran
              /\ checks["energy_conservation_check"].passed ) =>
              /\ status["energy_breakdown_per_capita"] = "pending"
              /\ status["export_analysis_report"] = "pending"
              /\ ~report.opened

\* energy_consumption_per_capita > 0.1
ExceedsThreshold(r) ==
    LET x == r.energy_consumption_per_capita
    IN  x.k = "inf" \/ (IsFin(x) /\ 10 * x.n > x.d)

\* C9: the plausibility check reports the number of per-capita rows whose
\* energy_consumption_per_capita exceeds 0.1 and passes exactly when that
\* number is 0; whatever its result (or whether it has run), once the
\* per-capita table exists the report export is ready to run (Ready is the
\* whole guard of ExportAnalysisReport).
C9_PlausibilityCheckCountsAndDoesNotBlock ==
    /\ checks["per_capita_plausibility_check"].ran =>
          /\ checks["per_capita_plausibility_check"].count =
                Cardinality({ i \in 1 .. Len(energy_breakdown_per_capita) :
                    ExceedsThreshold(energy_breakdown_per_capita[i]) })
          /\ checks["per_capita_plausibility_check"].passed
                <=> checks["per_capita_plausibility_check"].count = 0
    /\ ( /\ variant = "advanced"
         /\ status["energy_breakdown_per_capita"] = "done"
         /\ status["export_analysis_report"] = "pending" )
       => Ready("export_analysis_report")

\* The check has failed with a positive count and the report has been exported.
C9_Witness ==
    /\ checks["per_capita_plausibility_check"].ran
    /\ ~checks["per_capita_plausibility_check"].passed
    /\ checks["per_capita_plausibility_check"].count > 0
    /\ status["export_analysis_report"] = "done"
    /\ report.opened

Loaders == { "population", "energy_consumption", "renewable_coverage", "regional_grouping" }

\* C10: after a failed load no report is written, and a report is opened only
\* in a run whose four loads and whose transform stages have all completed.
C10_LoadFailureWritesNoReport ==
    /\ ( variant = "basic" /\ pc = "aborted" ) => ~report.opened
    /\ ( variant = "advanced" /\ \E a \in Loaders : status[a] = "failed" ) =>
          ( ~report.opened /\ status["export_analysis_report"] = "pending" )
    /\ report.opened =>
          IF variant = "basic" THEN pc = "done"
          ELSE \A a \in Assets : status[a] = "done"

\* One load has failed while the loads and transforms independent of it ran.
C10_Witness ==
    /\ variant = "advanced"
    /\ status["population"] = "failed"
    /\ status["energy_breakdown"] = "done"
    /\ status["regional_grouping"] = "done"
    /\ ~report.opened

\* The latest year in which some country row has a known (non-null)
\* population; 0 when no country row has one.
LatestCoveredYear ==
    LET ys == { energy_breakdown_with_population[i].year :
                  i \in { j \in 1 .. Len(energy_breakdown_with_population) :
                            ~IsNullValue(energy_breakdown_with_population[j].population) } }
    IN  IF ys = {} THEN 0 ELSE CHOOSE y \in ys : \A z \in ys : z <= y

PivotCells ==
    report.Renewable_Energy_Per_Capita \cup report.Fossil_Energy_Percent
        \cup report.Energy_per_Capita

\* Every cell of the three pivot sheets is of North America or Iberia and of a
\* year in [L-9, L], L the latest year with a country population.
PivotRowsInCoveredWindow ==
    report.opened =>
        \A c \in PivotCells :
            /\ c.entity \in { "North America", "Iberia" }
            /\ LatestCoveredYear - 9 <= c.year /\ c.year <= LatestCoveredYear

\* C11 (as claimed): the pivot sheets hold only rows of the two regions in the
\* years [L-9, L], and the year L the report writer bases the window on is the
\* latest year in which a country has a known population, never a year without
\* any country population record.
C11_PivotWindowFromLatestCoveredYear ==
    report.opened =>
        /\ \A c \in PivotCells :
              /\ c.entity \in { "North America", "Iberia" }
              /\ LatestCoveredYear - 9 <= c.year /\ c.year <= LatestCoveredYear
        /\ latest_year_with_population(energy_breakdown_per_capita, variant = "advanced")
              = LatestCoveredYear

\* x <= y between two numbers
NumLeq(x, y) == IsFin(x) /\ IsFin(y) /\ x.n * y.d <= y.n * x.d

\* The rows the report writer ranks.
RankedRows == valid_energy_data(energy_breakdown_per_capita, variant = "advanced")

\* A Top-10 sheet over the column col: at most 10 rows, no entity twice, each
\* row an entity's largest value of col over its ranked rows with the year of
\* that value, and no ranked entity outside the sheet with a larger value.
IsTopSheet(sheet, col) ==
    /\ Len(sheet) <= 10
    /\ \A i, j \in 1 .. Len(sheet) : sheet[i].entity = sheet[j].entity => i = j
    /\ \A i \in 1 .. Len(sheet) :
          /\ IsFin(sheet[i].value)
          /\ \E k \in 1 .. Len(RankedRows) : SheetEntry(RankedRows[k], col) = sheet[i]
          /\ \A k \in 1 .. Len(RankedRows) :
                RankedRows[k].entity = sheet[i].entity
                    => NumLeq(RankedRows[k][col], sheet[i].value)
    /\ \A k \in 1 .. Len(RankedRows) :
          ( \A i \in 1 .. Len(sheet) : sheet[i].entity # RankedRows[k].entity )
              => \A i \in 1 .. Len(sheet) : ~ValueGt(RankedRows[k][col], sheet[i].value)

\* C12 (as claimed): each Top-10 sheet has at most 10 rows and each entity at
\* most once; an entity's row shows its own maximum per-capita value over its
\* valid years, with the year of that value; no valid entity left out has a
\* larger maximum than an included one.
C12_TopTenSheetsRankEntityMaxima ==
    report.opened =>
        /\ IsTopSheet(report.Top_10_Renewable_Max, "renewable_energy_per_capita")
        /\ IsTopSheet(report.Top_10_Fossil_Max, "fossil_energy_per_capita")

\* What the ranking does guarantee: the sheets are Top-10 sheets whenever every
\* ranked row carries numbers in the two ranked columns.
TopTenSheetsRankNumbers ==
    ( /\ report.opened
      /\ \A k \in 1 .. Len(RankedRows) :
            /\ IsFin(RankedRows[k].renewable_energy_per_capita)
            /\ IsFin(RankedRows[k].fossil_energy_per_capita) )
    => /\ IsTopSheet(report.Top_10_Renewable_Max, "renewable_energy_per_capita")
       /\ IsTopSheet(report.Top_10_Fossil_Max, "fossil_energy_per_capita")

KnownPopulation(P) ==
    { p \in P : ~IsNullValue(energy_breakdown_with_population[p[1]].population) }

\* The per-capita row computed from the k-th rollup row.
RollupPerCapitaRow(k) ==
    energy_breakdown_per_capita[
        IF variant = "advanced" THEN Len(energy_breakdown_with_population) + k ELSE k ]

\* C14: a rollup row's population is the sum of its members' populations with
\* a missing population counted as 0: it is a number, never null, and 0 when
\* every member's population is missing; the row's per-capita values are the
\* consumption summed over all members divided by the population summed over
\* the members with a known population.
C14_RollupPopulationSkipsMissing ==
    /\ RollupsComputed =>
          \A k \in 1 .. Len(energy_breakdown_with_new_regions) :
              LET R == energy_breakdown_with_new_regions[k]
                  P == MemberPairs(R)
                  known == ExactSum(KnownPopulation(P), "population")
              IN  /\ IsFin(R.population)
                  /\ R.population.n = known[1] /\ R.population.d = known[2]
                  /\ KnownPopulation(P) = {} => R.population.n = 0
    /\ PerCapitaComputed =>
          \A k \in 1 .. Len(energy_breakdown_with_new_regions) :
              LET R == energy_breakdown_with_new_regions[k]
                  P == MemberPairs(R)
                  pop == SumAsFloat(KnownPopulation(P), "population")
                  c == RollupPerCapitaRow(k)
              IN  /\ c.entity_code = R.entity_code /\ c.year = R.year
                  /\ IsPerCapitaOf(c.energy_consumption_per_capita,
                                   SumAsFloat(P, "energy_consumption"), pop)
                  /\ IsPerCapitaOf(c.renewable_energy_per_capita,
                                   SumAsFloat(P, "renewable_energy_consumption"), pop)
                  /\ IsPerCapitaOf(c.fossil_energy_per_capita,
                                   SumAsFloat(P, "fossil_energy_consumption"), pop)

\* A region with one member of known population and one of missing population,
\* both consuming: its per-capita value is a number, the consumption of both
\* over the population of the one.
C14_Witness ==
    /\ PerCapitaComputed
    /\ \E k \in 1 .. Len(energy_breakdown_with_new_regions) :
          LET R == energy_breakdown_with_new_regions[k]
              P == MemberPairs(R)
              c == RollupPerCapitaRow(k)
          IN  /\ Cardinality(P) = 2
              /\ Cardinality(KnownPopulation(P)) = 1
              /\ \A p \in P : IsFin(energy_breakdown_with_population[p[1]].energy_consumption)
                              /\ energy_breakdown_with_population[p[1]].energy_consumption.n > 0
              /\ IsFin(R.population) /\ R.population.n > 0
              /\ IsFin(c.energy_consumption_per_capita)
              /\ c.energy_consumption_per_capita.n > 0

====
